---------------------------- MODULE Spec2Model ----------------------------
(***************************************************************************)
(* Model of the carbon-data-rag retrieval and calculation service          *)
(* (src/carbon-data-rag/src/rag_service.py): CarbonRAGService.query and    *)
(* CarbonRAGService.calculate over a ChromaDB collection of emission       *)
(* factors.                                                                *)
(*                                                                         *)
(* Numbers.  Python floats are modelled by exact rationals <<num, den>>    *)
(* with den > 0; round(x, n) is Python's round-half-to-even applied to the *)
(* exact value.  Binary representation error of floats is not modelled.    *)
(***************************************************************************)
EXTENDS Integers, Sequences, FiniteSets, TLC

(***************************************************************************)
(* Bounds of the model.                                                    *)
(***************************************************************************)
\* largest number of records in the collection
MaxRecords == 3
\* largest top_k a caller passes
MaxTopK == 2
\* resolution of the embedding grid: squared L2 distances are multiples of
\* 1 / DistScale
DistScale == 2
\* request threads that call get_rag_service concurrently
MaxThreads == 3
\* a large collection holds GetLimit - 1 .. GetLimit + MaxBeyond records of
\* one kind, followed by up to MaxBeyond records of another
MaxBeyond == 1
MaxRows == 3
MaxStored == 2

(***************************************************************************)
(* Rational arithmetic.                                                    *)
(***************************************************************************)
RatLess(a, b) == a[1] * b[2] < b[1] * a[2]

RatLeq(a, b) == a[1] * b[2] <= b[1] * a[2]

RatEq(a, b) == a[1] * b[2] = b[1] * a[2]

RatMul(a, b) == <<a[1] * b[1], a[2] * b[2]>>

\* a / b for b > 0
RatDiv(a, b) == <<a[1] * b[2], a[2] * b[1]>>

Pow10(n) == IF n = 0 THEN 1 ELSE IF n = 1 THEN 10 ELSE IF n = 2 THEN 100 ELSE 1000

\* a variant of round() that truncates toward minus infinity
RoundFloor(x, ndigits) ==
    <<(x[1] * Pow10(ndigits)) \div x[2], Pow10(ndigits)>>

\* Python's round(x, ndigits): nearest multiple of 10^-ndigits, ties to even
Round(x, ndigits) ==
    LET scale == Pow10(ndigits)
        n     == x[1] * scale
        q     == n \div x[2]
        r     == n % x[2]
        up    == \/ 2 * r > x[2]
                 \/ (2 * r = x[2] /\ q % 2 = 1)
    IN  <<IF up THEN q + 1 ELSE q, scale>>

(***************************************************************************)
(* The collection "carbon_factors".  A record is what ingest.py stores per *)
(* DEFRA row: an embedding (here one coordinate on the grid) and the       *)
(* metadata category, description and factor.                              *)
(***************************************************************************)
Catalogue ==
    { [vec |-> 0, category |-> "transport",   description |-> "average car",
       factor |-> <<17, 100>>],
      [vec |-> 0, category |-> "electricity", description |-> "grid electricity",
       factor |-> <<5, 100>>],
      [vec |-> 1, category |-> "transport",   description |-> "electric car",
       factor |-> <<23, 100>>],
      [vec |-> 3, category |-> "energy",      description |-> "natural gas",
       factor |-> <<2, 1>>] }

Indexes == UNION { [1..n -> Catalogue] : n \in 0..MaxRecords }

\* query texts a caller passes
Queries == {"average car trip", "natural gas heating"}

\* self.embedding_model.encode([query])[0]
Embed(query) == IF query = "average car trip" THEN 0 ELSE 3

\* category_filter=None
NoFilter == "<None>"

CategoryFilters == {NoFilter, "", "transport", "electricity", "water"}

TopKs == -1..MaxTopK

MinSimilarities ==
    { <<-1, 10>>, <<0, 1>>, <<3, 10>>, <<3333, 10000>>, <<1, 2>>, <<1, 1>>,
      <<3, 2>> }

\* quantities a caller passes to calculate
Values == { <<100, 1>>, <<41, 100>>, <<0, 1>>, <<-1, 1>> }

VARIABLES
    index,          \* the collection: a sequence of records, in insertion order
    op,             \* the call in progress: "idle", "query" or "calculate"
    args,           \* its arguments
    outcome,        \* "none", "returned" or "raised"
    results,        \* the list query returned (in calculate: factors)
    calc,           \* the dict calculate returned
    embedCalls,     \* embedding calls issued by the call
    indexQueries,   \* queries that reached the collection's index in the call
    askedFor,       \* how many neighbours the call asked the index for
    storeCalls,     \* calls of DatabaseManager.store_score made by the call
    categories,     \* the list get_available_categories returned
    stats,          \* the dict get_stats returned
    status,         \* the HTTP status of the response (0: not an HTTP call)
    backend,        \* "up", "embed_down" (encode raises), "index_down"
    memo,           \* an earlier answer of query that a caller kept
    store,          \* what is on disk when the service is constructed
    rag_service,    \* the module global _rag_service (0: None)
    constructed,    \* CarbonRAGService instances constructed so far
    pc,             \* where each request thread is in get_rag_service
    got,            \* the instance get_rag_service handed to each thread
    rows,           \* the rows of the DEFRA sheet
    ingested,       \* what ingest_defra returned ("none": not run)
    dbMode,         \* the Snowflake side of the scoring API's DatabaseManager
    stored          \* rows in the carbon_scores table

callVars == <<op, args, outcome, results, calc, embedCalls, indexQueries,
              askedFor, storeCalls, categories, stats, status>>

singletonVars == <<store, rag_service, constructed, pc, got>>

ingestVars == <<rows, ingested>>

scoringVars == <<dbMode, stored>>

vars == <<index, callVars, backend, memo, singletonVars, ingestVars, scoringVars>>


(***************************************************************************)
(* ChromaDB: collection.query(query_embeddings, n_results, where).         *)
(* The collection uses the default squared-L2 space and answers with the   *)
(* n_results nearest eligible records in ascending distance; records at    *)
(* the same distance come in insertion order.                              *)
(***************************************************************************)
Distance(e, rec) == <<(rec.vec - e) * (rec.vec - e), DistScale>>

\* the where clause: {"category": category_filter}, or None
Eligible(idx, where) ==
    { i \in 1..Len(idx) : where = NoFilter \/ idx[i].category = where }

\* an index that answers in insertion order
NearerByInsertion(idx, e, i, j) == i <= j

Nearer(idx, e, i, j) ==
    \/ RatLess(Distance(e, idx[i]), Distance(e, idx[j]))
    \/ (RatEq(Distance(e, idx[i]), Distance(e, idx[j])) /\ i <= j)

RECURSIVE ByDistance(_, _, _)
ByDistance(idx, e, S) ==
    IF S = {} THEN <<>>
    ELSE LET first == CHOOSE i \in S : \A j \in S : Nearer(idx, e, i, j)
         IN  <<first>> \o ByDistance(idx, e, S \ {first})

\* the candidates of one query: rank is the place in the index's answer
CollectionQuery(idx, e, n_results, where) ==
    LET order == ByDistance(idx, e, Eligible(idx, where))
        n     == IF n_results < Len(order) THEN n_results ELSE Len(order)
    IN  [r \in 1..n |->
            [rank     |-> r,
             metadata |-> idx[order[r]],
             distance |-> Distance(e, idx[order[r]])]]

(***************************************************************************)
(* CarbonRAGService.query                                                  *)
(***************************************************************************)
\* where_filter = {"category": category_filter} if category_filter else None
WhereFilter(category_filter) ==
    IF category_filter = NoFilter \/ category_filter = ""
    THEN NoFilter
    ELSE category_filter

\* a score that grows with the distance
SimilarityGrowing(distance) == <<distance[2] + distance[1], distance[2]>>

\* similarity = 1 / (1 + distance)
Similarity(distance) == <<distance[2], distance[2] + distance[1]>>

\* a threshold test with the comparison turned around
KeepsBelow(similarity, min_similarity) == RatLeq(similarity, min_similarity)

\* if similarity < min_similarity: continue
Keeps(similarity, min_similarity) == ~RatLess(similarity, min_similarity)

FormatResult(c) ==
    [factor           |-> c.metadata.factor,
     description      |-> c.metadata.description,
     category         |-> c.metadata.category,
     similarity_score |-> Round(Similarity(c.distance), 3),
     rank             |-> c.rank]

\* a loop that puts each kept candidate in front of the list
FormattedResultsPrepend(candidates, min_similarity) ==
    LET kept == SelectSeq(candidates,
                          LAMBDA c : Keeps(Similarity(c.distance), min_similarity))
    IN  [i \in 1..Len(kept) |-> FormatResult(kept[Len(kept) + 1 - i])]

\* the loop over the candidates
FormattedResults(candidates, min_similarity) ==
    LET kept == SelectSeq(candidates,
                          LAMBDA c : Keeps(Similarity(c.distance), min_similarity))
    IN  [i \in 1..Len(kept) |-> FormatResult(kept[i])]

\* a return without the final cut
NoTruncate(formatted_results, top_k) == formatted_results

\* formatted_results[:top_k], top_k >= 1
Truncate(formatted_results, top_k) ==
    SubSeq(formatted_results, 1,
           IF top_k < Len(formatted_results) THEN top_k ELSE Len(formatted_results))

\* a failure that is swallowed: the caller gets an empty list
BackendFailureSwallowed(embeds, lookups) ==
    [outcome |-> "returned", results |-> <<>>,
     embedCalls |-> embeds, indexQueries |-> lookups]

\* an exception of the embedder or of the collection leaves query after
\* `embeds` embedding calls and `lookups` index queries
BackendFailure(embeds, lookups) ==
    [outcome |-> "raised", results |-> <<>>,
     embedCalls |-> embeds, indexQueries |-> lookups]

\* one call of query: what it returns, the embedding calls it issues and the
\* index queries the collection serves.  collection.query raises for
\* n_results <= 0 while it validates its arguments, before it reads the index.
\* With the backend down, encode (line 79) or collection.query (line 87)
\* raises; query has no try/except.
\* an empty answer of the index treated as an error
EmptyAnswerRaises ==
    [outcome |-> "raised", results |-> <<>>,
     embedCalls |-> 1, indexQueries |-> 1]

\* if not results['ids'] or not results['ids'][0]: return []
EmptyAnswer ==
    [outcome |-> "returned", results |-> <<>>,
     embedCalls |-> 1, indexQueries |-> 1]

\* an index query without over-fetch
NResultsTopK(top_k) == top_k

\* n_results=top_k * 2
NResults(top_k) == top_k * 2

QueryCall(idx, query, top_k, category_filter, min_similarity) ==
    LET e     == Embed(query)
        where == WhereFilter(category_filter)
    IN  IF backend = "embed_down"
        THEN BackendFailure(1, 0)
        ELSE IF NResults(top_k) <= 0
        THEN [outcome |-> "raised", results |-> <<>>,
              embedCalls |-> 1, indexQueries |-> 0]
        ELSE IF backend = "index_down"
        THEN BackendFailure(1, 1)
        ELSE LET candidates == CollectionQuery(idx, e, NResults(top_k), where)
             IN  IF Len(candidates) = 0
                 THEN EmptyAnswer
                 ELSE [outcome |-> "returned",
                       results |-> Truncate(
                           FormattedResults(candidates, min_similarity), top_k),
                       embedCalls |-> 1, indexQueries |-> 1]

(***************************************************************************)
(* CarbonRAGService.calculate                                              *)
(***************************************************************************)
\* a calculate as strict as a search for near-exact matches
CalculateMinSimilarityStrict == <<9, 10>>

\* min_similarity=0.3, the threshold calculate searches with
CalculateMinSimilarity == <<3, 10>>

\* min_similarity=0.5, the default of query
QueryMinSimilarity == <<1, 2>>

\* a not-found dict that loses the query text
NotFoundNoQuery(query) ==
    [error |-> "Aucun facteur trouve pour cette requete", query |-> ""]

\* {"error": ..., "query": query}
NotFound(query) ==
    [error |-> "Aucun facteur trouve pour cette requete", query |-> query]

\* co2e_kg = best_factor["factor"] * value
Co2eKg(factor, value) == RatMul(factor, value)

\* an estimate cut to 2 decimals instead of rounded
Co2eEstimateFloor(co2e_kg) == RoundFloor(co2e_kg, 2)

\* round(co2e_kg, 2)
Co2eEstimate(co2e_kg) == Round(co2e_kg, 2)

\* equivalents derived from the rounded estimate
EquivalentsOfRounded(co2e_kg) ==
    [car_km_average    |-> Round(RatDiv(Round(co2e_kg, 2), <<17, 100>>), 1),
     trees_year_offset |-> Round(RatDiv(Round(co2e_kg, 2), <<21, 1>>), 2)]

\* round(co2e_kg / 0.17, 1) and round(co2e_kg / 21, 2)
Equivalents(co2e_kg) ==
    [car_km_average    |-> Round(RatDiv(co2e_kg, <<17, 100>>), 1),
     trees_year_offset |-> Round(RatDiv(co2e_kg, <<21, 1>>), 2)]

\* alternatives that still hold the factor used
AlternativeFactorsAll(factors) == factors

\* factors[1:] if len(factors) > 1 else []
AlternativeFactors(factors) ==
    IF Len(factors) > 1 THEN Tail(factors) ELSE <<>>

CalculationResult(query, value, factors) ==
    LET best_factor == factors[1]
        co2e_kg     == Co2eKg(best_factor.factor, value)
    IN  [query               |-> query,
         value               |-> value,
         co2e_kg             |-> Co2eEstimate(co2e_kg),
         factor_used         |-> best_factor,
         alternative_factors |-> AlternativeFactors(factors),
         equivalents         |-> Equivalents(co2e_kg)]

\* the value of calc while no calculate has returned
NoCalc == [none |-> TRUE]

\* one call of calculate.  An exception of query propagates.
CalculateCall(idx, query, value, top_k) ==
    LET found == QueryCall(idx, query, top_k, NoFilter, CalculateMinSimilarity)
    IN  IF found.outcome = "raised"
        THEN [outcome |-> "raised", calc |-> NoCalc, factors |-> <<>>,
              embedCalls |-> found.embedCalls, indexQueries |-> found.indexQueries]
        ELSE [outcome |-> "returned",
              calc |-> IF Len(found.results) = 0
                       THEN NotFound(query)
                       ELSE CalculationResult(query, value, found.results),
              factors |-> found.results,
              embedCalls |-> found.embedCalls, indexQueries |-> found.indexQueries]

(***************************************************************************)
(* CarbonRAGService.get_available_categories and get_stats                 *)
(***************************************************************************)
\* self.collection.get(limit=100, ...)
GetLimit == 100

\* the category strings of the model, as sorted() orders them
AlphabeticalCategories ==
    <<"electricity", "energy", "other", "transport">>

\* collection.get(limit=...): the first records in insertion order
CollectionGet(idx, limit) ==
    SubSeq(idx, 1, IF limit < Len(idx) THEN limit ELSE Len(idx))

\* sorted(list(categories)) over the sample
AvailableCategories(idx) ==
    LET sample == CollectionGet(idx, GetLimit)
        found  == { sample[i].category : i \in 1..Len(sample) }
    IN  SelectSeq(AlphabeticalCategories, LAMBDA c : c \in found)

\* the value of stats while no get_stats has returned
NoStats == [none |-> TRUE]

StatsResult(idx) ==
    [total_factors   |-> Len(idx),
     categories      |-> AvailableCategories(idx),
     embedding_model |-> "all-MiniLM-L6-v2",
     vector_db       |-> "ChromaDB",
     source          |-> "DEFRA 2024"]

(***************************************************************************)
(* The state machine: a caller (the HTTP layer, a test, an agent) calls    *)
(* the service; the call runs to completion; the caller takes the answer.  *)
(***************************************************************************)
\* request threads of the HTTP server
Threads == 1..MaxThreads

NoMemo == [none |-> TRUE]

\* no call in progress
InitCall ==
    /\ op = "idle"
    /\ args = <<>>
    /\ outcome = "none"
    /\ results = <<>>
    /\ calc = NoCalc
    /\ embedCalls = 0
    /\ indexQueries = 0
    /\ askedFor = 0
    /\ storeCalls = 0
    /\ categories = <<>>
    /\ stats = NoStats
    /\ status = 0

\* the module is imported: _rag_service = None, no request has arrived
InitSingleton ==
    /\ rag_service = 0
    /\ constructed = 0
    /\ pc = [t \in Threads |-> "new"]
    /\ got = [t \in Threads |-> 0]

\* no ingestion is running
InitIngest ==
    /\ rows = <<>>
    /\ ingested = "none"

\* the scoring API is connected to an empty carbon_scores table
InitScoring ==
    /\ dbMode = "connected"
    /\ stored = 0

\* the service over an ingested collection, with a healthy backend
Init ==
    /\ index \in Indexes
    /\ InitCall
    /\ backend = "up"
    /\ memo = NoMemo
    /\ store = "ok"
    /\ InitSingleton
    /\ InitIngest
    /\ InitScoring

\* a call that takes the first record out of the collection
IndexConsumed == index' = IF Len(index) > 0 THEN Tail(index) ELSE index

\* no method of the service calls add, update, upsert or delete
IndexUnchanged == index' = index

CallFrameConsuming ==
    IndexConsumed /\ UNCHANGED <<backend, memo, singletonVars, ingestVars, scoringVars>>

\* what a call of the service leaves alone
CallFrame ==
    IndexUnchanged /\ UNCHANGED <<backend, memo, singletonVars, ingestVars, scoringVars>>

Query(query, top_k, category_filter, min_similarity) ==
    /\ op = "idle"
    /\ \E r \in {QueryCall(index, query, top_k, category_filter, min_similarity)} :
           /\ outcome' = r.outcome
           /\ results' = r.results
           /\ embedCalls' = r.embedCalls
           /\ indexQueries' = r.indexQueries
           /\ askedFor' = IF r.indexQueries > 0 THEN NResults(top_k) ELSE 0
           /\ storeCalls' = 0
    /\ op' = "query"
    /\ args' = [query |-> query, top_k |-> top_k,
                category_filter |-> category_filter,
                min_similarity |-> min_similarity]
    /\ UNCHANGED <<calc, categories, stats, status>>
    /\ CallFrame

Calculate(query, value, top_k) ==
    /\ op = "idle"
    /\ \E r \in {CalculateCall(index, query, value, top_k)} :
           /\ outcome' = r.outcome
           /\ calc' = r.calc
           /\ results' = r.factors
           /\ embedCalls' = r.embedCalls
           /\ indexQueries' = r.indexQueries
           /\ askedFor' = IF r.indexQueries > 0 THEN NResults(top_k) ELSE 0
           /\ storeCalls' = 0
    /\ op' = "calculate"
    /\ args' = [query |-> query, value |-> value, top_k |-> top_k]
    /\ UNCHANGED <<categories, stats, status>>
    /\ CallFrame

\* collection.get and collection.count raise when the index is down
GetAvailableCategories ==
    /\ op = "idle"
    /\ op' = "categories"
    /\ args' = <<>>
    /\ IF backend = "index_down"
       THEN outcome' = "raised" /\ categories' = <<>>
       ELSE outcome' = "returned" /\ categories' = AvailableCategories(index)
    /\ embedCalls' = 0
    /\ indexQueries' = 0
    /\ askedFor' = 0
    /\ storeCalls' = 0
    /\ UNCHANGED <<results, calc, stats, status>>
    /\ CallFrame

GetStats ==
    /\ op = "idle"
    /\ op' = "stats"
    /\ args' = <<>>
    /\ IF backend = "index_down"
       THEN outcome' = "raised" /\ stats' = NoStats
       ELSE outcome' = "returned" /\ stats' = StatsResult(index)
    /\ embedCalls' = 0
    /\ indexQueries' = 0
    /\ askedFor' = 0
    /\ storeCalls' = 0
    /\ UNCHANGED <<results, calc, categories, status>>
    /\ CallFrame

\* the call is over: its locals are gone
Return ==
    /\ op # "idle"
    /\ op' = "idle"
    /\ args' = <<>>
    /\ outcome' = "none"
    /\ results' = <<>>
    /\ calc' = NoCalc
    /\ embedCalls' = 0
    /\ indexQueries' = 0
    /\ askedFor' = 0
    /\ storeCalls' = 0
    /\ categories' = <<>>
    /\ stats' = NoStats
    /\ status' = 0
    /\ CallFrame

Next ==
    \/ \E query \in Queries, top_k \in TopKs,
          category_filter \in CategoryFilters,
          min_similarity \in MinSimilarities :
            Query(query, top_k, category_filter, min_similarity)
    \/ \E query \in Queries, value \in Values, top_k \in TopKs :
            Calculate(query, value, top_k)
    \/ GetAvailableCategories
    \/ GetStats
    \/ Return

Spec == Init /\ [][Next]_vars

(***************************************************************************)
(* The service with its embedding model or its collection out of order.    *)
(***************************************************************************)
Backends == {"up", "embed_down", "index_down"}

InitFaults ==
    /\ index \in Indexes
    /\ InitCall
    /\ backend \in Backends
    /\ memo = NoMemo
    /\ store = "ok"
    /\ InitSingleton
    /\ InitIngest
    /\ InitScoring

NextFaults ==
    \/ \E query \in Queries, top_k \in TopKs,
          category_filter \in {NoFilter, "transport"},
          min_similarity \in {CalculateMinSimilarity, QueryMinSimilarity} :
            Query(query, top_k, category_filter, min_similarity)
    \/ \E query \in Queries, top_k \in TopKs : Calculate(query, <<100, 1>>, top_k)
    \/ GetAvailableCategories
    \/ GetStats
    \/ Return

SpecFaults == InitFaults /\ [][NextFaults]_vars

(***************************************************************************)
(* A caller that keeps the answer of one search and repeats the search     *)
(* later, other calls in between.                                          *)
(***************************************************************************)
\* the caller keeps the arguments and the answer of the search just made
Keep ==
    /\ op = "query"
    /\ outcome = "returned"
    /\ memo = NoMemo
    /\ memo' = [none |-> FALSE, args |-> args, results |-> results,
                others |-> FALSE]
    /\ op' = "idle"
    /\ args' = <<>>
    /\ outcome' = "none"
    /\ results' = <<>>
    /\ calc' = NoCalc
    /\ embedCalls' = 0
    /\ indexQueries' = 0
    /\ askedFor' = 0
    /\ storeCalls' = 0
    /\ categories' = <<>>
    /\ stats' = NoStats
    /\ status' = 0
    /\ UNCHANGED <<index, backend, singletonVars, ingestVars, scoringVars>>

\* a later call is over; the caller notes whether it was another call than
\* the search it kept
ReturnNoted ==
    /\ op # "idle"
    /\ memo' = IF memo = NoMemo
               THEN memo
               ELSE [memo EXCEPT
                       !.others = @ \/ op # "query" \/ args # memo.args]
    /\ op' = "idle"
    /\ args' = <<>>
    /\ outcome' = "none"
    /\ results' = <<>>
    /\ calc' = NoCalc
    /\ embedCalls' = 0
    /\ indexQueries' = 0
    /\ askedFor' = 0
    /\ storeCalls' = 0
    /\ categories' = <<>>
    /\ stats' = NoStats
    /\ status' = 0
    /\ UNCHANGED <<index, backend, singletonVars, ingestVars, scoringVars>>

InitRepeat ==
    /\ index \in Indexes
    /\ InitCall
    /\ backend = "up"
    /\ memo = NoMemo
    /\ store = "ok"
    /\ InitSingleton
    /\ InitIngest
    /\ InitScoring

NextRepeat ==
    \/ \E query \in Queries, top_k \in 1..MaxTopK,
          category_filter \in {NoFilter, "transport"} :
            Query(query, top_k, category_filter, CalculateMinSimilarity)
    \/ \E query \in Queries : Calculate(query, <<100, 1>>, 1)
    \/ GetAvailableCategories
    \/ GetStats
    \/ Keep
    \/ ReturnNoted

SpecRepeat == InitRepeat /\ [][NextRepeat]_vars

(***************************************************************************)
(* The accessors over a collection of about GetLimit records, as a DEFRA   *)
(* ingestion produces (thousands of rows).                                 *)
(***************************************************************************)
LargeIndexes ==
    { [i \in 1..(n1 + n2) |-> IF i <= n1 THEN a ELSE b] :
        a \in Catalogue, b \in Catalogue,
        n1 \in (GetLimit - 1)..(GetLimit + MaxBeyond), n2 \in 0..MaxBeyond }

InitCategories ==
    /\ index \in LargeIndexes
    /\ InitCall
    /\ backend = "up"
    /\ memo = NoMemo
    /\ store = "ok"
    /\ InitSingleton
    /\ InitIngest
    /\ InitScoring

NextCategories ==
    \/ GetAvailableCategories
    \/ GetStats
    \/ Return

SpecCategories == InitCategories /\ [][NextCategories]_vars

(***************************************************************************)
(* ingest.py: DEFRAIngester.  A row of the sheet "Factors by Category" is  *)
(* its cells 'GHG Conversion Factor 2024' and 'Level 1'; the factor cell   *)
(* is a number or empty (NaN), the level cell a text or empty.             *)
(***************************************************************************)
\* an empty cell, as pandas reads it
NaN == <<0, 0>>

\* pd.isna(x)
IsNa(x) == x[2] = 0

NoLevel == "<nan>"

FactorCells == { NaN, <<0, 1>>, <<17, 100>>, <<-1, 2>> }

LevelCells == { "Transport", NoLevel }

SheetRows == [factor : FactorCells, level1 : LevelCells]

Sheets == UNION { [1..n -> SheetRows] : n \in 0..MaxRows }

\* str.lower()
Lower(text) == IF text = "Transport" THEN "transport" ELSE text

\* self.embedding_model.encode(texts): the text of a transport document lies
\* where the car queries lie
EmbedDocument(category) == IF category = "transport" THEN 0 ELSE 3

\* a test that lets zero factors through
SkippedIfAbsent(factor_value) == IsNa(factor_value)

\* if pd.isna(factor_value) or factor_value == 0: continue
Skipped(factor_value) ==
    IsNa(factor_value) \/ RatEq(factor_value, <<0, 1>>)

\* the document of one row: its embedding and metadata
Document(row) ==
    LET category == IF row.level1 # NoLevel THEN Lower(row.level1) ELSE "other"
    IN  [vec         |-> EmbedDocument(category),
         category    |-> category,
         description |-> IF row.level1 # NoLevel THEN row.level1
                                                 ELSE "Emission factor",
         factor      |-> row.factor]

RECURSIVE parse_defra_flat_format(_)
parse_defra_flat_format(df) ==
    IF Len(df) = 0 THEN <<>>
    ELSE IF Skipped(Head(df).factor)
         THEN parse_defra_flat_format(Tail(df))
         ELSE <<Document(Head(df))>> \o parse_defra_flat_format(Tail(df))

\* DEFRAIngester.ingest_defra on the fresh collection main() gives it:
\* False when nothing was extracted, else every document is added
ingest_defra ==
    /\ ingested = "none"
    /\ LET all_documents == parse_defra_flat_format(rows)
       IN  IF Len(all_documents) = 0
           THEN /\ ingested' = "failed"
                /\ index' = index
           ELSE /\ ingested' = "done"
                /\ index' = index \o all_documents
    /\ UNCHANGED <<rows, callVars, backend, memo, singletonVars, scoringVars>>

InitIngestion ==
    /\ index = <<>>
    /\ InitCall
    /\ backend = "up"
    /\ memo = NoMemo
    /\ store = "ok"
    /\ InitSingleton
    /\ rows \in Sheets
    /\ ingested = "none"
    /\ InitScoring

NextIngestion ==
    \/ ingest_defra
    \/ \E query \in Queries :
            Query(query, 1, NoFilter, CalculateMinSimilarity)
    \/ \E query \in Queries : Calculate(query, <<100, 1>>, 1)
    \/ Return

SpecIngestion == InitIngestion /\ [][NextIngestion]_vars

(***************************************************************************)
(* api.py: POST /query and POST /calculate over a constructed service.     *)
(* FastAPI validates the body against the pydantic model and answers 422   *)
(* before the endpoint function runs.                                      *)
(***************************************************************************)
\* Field(..., min_length=3)
MinQueryLength == 3

\* QueryRequest.top_k: Field(5, ge=1, le=20)
QueryTopKMax == 20

\* CalculateRequest.top_k: Field(3, ge=1, le=10)
CalculateTopKMax == 10

\* request texts, and len() of them
RequestTexts == {"ab", "average car trip"}

Chars(text) == IF text = "ab" THEN 2 ELSE 16

QueryRequests ==
    [query : RequestTexts,
     top_k : {0, 1, QueryTopKMax, QueryTopKMax + 1},
     category_filter : {NoFilter},
     min_similarity : { <<-1, 10>>, <<0, 1>>, <<1, 2>>, <<1, 1>>, <<3, 2>> }]

CalculateRequests ==
    [query : RequestTexts,
     value : Values,
     top_k : {0, 1, CalculateTopKMax, CalculateTopKMax + 1}]

\* a model whose top_k has no upper bound
ValidQueryRequestNoMaximum(request) ==
    /\ Chars(request.query) >= MinQueryLength
    /\ request.top_k >= 1
    /\ RatLeq(<<0, 1>>, request.min_similarity)
    /\ RatLeq(request.min_similarity, <<1, 1>>)

\* class QueryRequest(BaseModel)
ValidQueryRequest(request) ==
    /\ Chars(request.query) >= MinQueryLength
    /\ request.top_k >= 1
    /\ request.top_k <= QueryTopKMax
    /\ RatLeq(<<0, 1>>, request.min_similarity)
    /\ RatLeq(request.min_similarity, <<1, 1>>)

\* class CalculateRequest(BaseModel)
ValidCalculateRequest(request) ==
    /\ Chars(request.query) >= MinQueryLength
    /\ RatLess(<<0, 1>>, request.value)
    /\ request.top_k >= 1
    /\ request.top_k <= CalculateTopKMax

\* @app.post("/query")
query_factors(request) ==
    /\ op = "idle"
    /\ op' = "http_query"
    /\ args' = request
    /\ IF ~ValidQueryRequest(request)
       THEN /\ status' = 422
            /\ outcome' = "none"
            /\ results' = <<>>
            /\ embedCalls' = 0
            /\ indexQueries' = 0
            /\ askedFor' = 0
            /\ storeCalls' = 0
       ELSE \E r \in {QueryCall(index, request.query, request.top_k,
                                request.category_filter,
                                request.min_similarity)} :
               /\ status' = IF r.outcome = "raised" THEN 500 ELSE 200
               /\ outcome' = r.outcome
               /\ results' = r.results
               /\ embedCalls' = r.embedCalls
               /\ indexQueries' = r.indexQueries
               /\ askedFor' = IF r.indexQueries > 0 THEN NResults(request.top_k) ELSE 0
               /\ storeCalls' = 0
    /\ UNCHANGED <<calc, categories, stats>>
    /\ CallFrame

\* an endpoint whose "except Exception" also catches its own HTTPException
CalculateStatusCatchAll(result_outcome, result) ==
    IF result_outcome = "raised" THEN 500
    ELSE IF "error" \in DOMAIN result THEN 500
    ELSE 200

\* the status of /calculate: 404 on "error" in result (re-raised by
\* "except HTTPException: raise"), 500 on any other exception
CalculateStatus(result_outcome, result) ==
    IF result_outcome = "raised" THEN 500
    ELSE IF "error" \in DOMAIN result THEN 404
    ELSE 200

\* @app.post("/calculate")
calculate_emissions(request) ==
    /\ op = "idle"
    /\ op' = "http_calculate"
    /\ args' = request
    /\ IF ~ValidCalculateRequest(request)
       THEN /\ status' = 422
            /\ outcome' = "none"
            /\ calc' = NoCalc
            /\ results' = <<>>
            /\ embedCalls' = 0
            /\ indexQueries' = 0
            /\ askedFor' = 0
            /\ storeCalls' = 0
       ELSE \E r \in {CalculateCall(index, request.query, request.value,
                                    request.top_k)} :
               /\ status' = CalculateStatus(r.outcome, r.calc)
               /\ outcome' = r.outcome
               /\ calc' = r.calc
               /\ results' = r.factors
               /\ embedCalls' = r.embedCalls
               /\ indexQueries' = r.indexQueries
               /\ askedFor' = IF r.indexQueries > 0 THEN NResults(request.top_k) ELSE 0
               /\ storeCalls' = 0
    /\ UNCHANGED <<categories, stats>>
    /\ CallFrame

\* the server is up: get_rag_service has constructed the service
InitHttp ==
    /\ index \in Indexes
    /\ InitCall
    /\ backend \in Backends
    /\ memo = NoMemo
    /\ store = "ok"
    /\ rag_service = 1
    /\ constructed = 1
    /\ pc = [t \in Threads |-> "new"]
    /\ got = [t \in Threads |-> 0]
    /\ InitIngest
    /\ InitScoring

NextHttp ==
    \/ \E request \in QueryRequests : query_factors(request)
    \/ \E request \in CalculateRequests : calculate_emissions(request)
    \/ Return

SpecHttp == InitHttp /\ [][NextHttp]_vars

(***************************************************************************)
(* scoring-api: CarbonScoringAPI.calculate_score over DatabaseManager.     *)
(* The timestamp of the result is left out.                                *)
(***************************************************************************)
RECURSIVE Gcd(_, _)
Gcd(a, b) == IF b = 0 THEN a ELSE Gcd(b, a % b)

\* the same number in lowest terms
Reduce(x) ==
    LET g == Gcd(IF x[1] < 0 THEN 0 - x[1] ELSE x[1], x[2])
    IN  <<x[1] \div g, x[2] \div g>>

RatAdd(a, b) == Reduce(<<a[1] * b[2] + b[1] * a[2], a[2] * b[2]>>)

RatTimes(a, b) == Reduce(RatMul(a, b))

\* min(a, b) and max(a, b) of Python: the first argument unless the second
\* is smaller (larger)
RatMin(a, b) == IF RatLess(b, a) THEN b ELSE a

RatMax(a, b) == IF RatLess(a, b) THEN b ELSE a

SCORING_WEIGHTS ==
    [energy |-> <<2, 5>>, transport |-> <<7, 20>>, waste |-> <<1, 4>>]

EMISSION_FACTORS ==
    [energy_kwh |-> <<1, 2>>, transport_km |-> <<3, 25>>, waste_kg |-> <<3, 10>>]

\* RESOURCE_MULTIPLIERS.get(resource_type, 1.0)
RESOURCE_MULTIPLIERS(resource_type) ==
    IF resource_type = "Renewable" THEN <<3, 10>>
    ELSE IF resource_type = "Mixed" THEN <<13, 20>>
    ELSE <<1, 1>>

\* the dict, in its order of definition
RATING_THRESHOLDS ==
    << [rating |-> "A+", min_score |-> 0,  max_score |-> 20],
       [rating |-> "A",  min_score |-> 20, max_score |-> 40],
       [rating |-> "B",  min_score |-> 40, max_score |-> 60],
       [rating |-> "C",  min_score |-> 60, max_score |-> 80],
       [rating |-> "D",  min_score |-> 80, max_score |-> 90],
       [rating |-> "E",  min_score |-> 90, max_score |-> 100] >>

\* quantities and resource types a caller passes
Energies == { <<-1, 1>>, <<0, 1>>, <<49992, 100>>, <<500, 1>>, <<2000, 1>> }

Transports == { <<-1, 1>>, <<0, 1>>, <<100, 1>>, <<600, 1>> }

Wastes == { <<-1, 1>>, <<0, 1>>, <<40, 1>>, <<300, 1>> }

ResourceTypes == {"Renewable", "Non-renewable", "Mixed", "Solar"}

\* how the database side behaves: a live connection, none (self.conn is
\* None), an INSERT that fails inside store_score, a store_score that raises
DbModes == {"connected", "no_connection", "insert_fails", "raises"}

\* a validation that accepts any resource type
validateQuantities(input) ==
    /\ ~RatLess(input.energy_consumption, <<0, 1>>)
    /\ ~RatLess(input.transport_distance, <<0, 1>>)
    /\ ~RatLess(input.waste_generated, <<0, 1>>)

\* ScoringInput.validate: is_valid
validate(input) ==
    /\ ~RatLess(input.energy_consumption, <<0, 1>>)
    /\ ~RatLess(input.transport_distance, <<0, 1>>)
    /\ ~RatLess(input.waste_generated, <<0, 1>>)
    /\ input.resource_type \in {"Renewable", "Non-renewable", "Mixed"}

\* CarbonScoringAPI.calculate_emissions
scoring_calculate_emissions(input) ==
    LET multiplier == RESOURCE_MULTIPLIERS(input.resource_type)
        energy_emissions ==
            RatTimes(RatTimes(input.energy_consumption,
                              EMISSION_FACTORS.energy_kwh), multiplier)
        transport_emissions ==
            RatTimes(input.transport_distance, EMISSION_FACTORS.transport_km)
        waste_emissions ==
            RatTimes(input.waste_generated, EMISSION_FACTORS.waste_kg)
        total_emissions ==
            RatAdd(RatAdd(energy_emissions, transport_emissions),
                   waste_emissions)
    IN  [energy_emissions    |-> Round(energy_emissions, 2),
         transport_emissions |-> Round(transport_emissions, 2),
         waste_emissions     |-> Round(waste_emissions, 2),
         total_emissions     |-> Round(total_emissions, 2)]

\* total_score after the clamp to 0..100
TotalScore(input) ==
    LET energy_score ==
            RatTimes(RatMin(RatDiv(input.energy_consumption, <<10, 1>>),
                            <<100, 1>>), SCORING_WEIGHTS.energy)
        transport_score ==
            RatTimes(RatMin(RatDiv(input.transport_distance, <<5, 1>>),
                            <<100, 1>>), SCORING_WEIGHTS.transport)
        waste_score ==
            RatTimes(RatMin(RatDiv(input.waste_generated, <<2, 1>>),
                            <<100, 1>>), SCORING_WEIGHTS.waste)
        total_score ==
            RatTimes(RatAdd(RatAdd(energy_score, transport_score), waste_score),
                     RESOURCE_MULTIPLIERS(input.resource_type))
    IN  RatMin(RatMax(total_score, <<0, 1>>), <<100, 1>>)

\* CarbonScoringAPI._get_rating
get_rating(score) ==
    LET hits == { i \in 1..Len(RATING_THRESHOLDS) :
                    /\ RatLeq(<<RATING_THRESHOLDS[i].min_score, 1>>, score)
                    /\ RatLess(score, <<RATING_THRESHOLDS[i].max_score, 1>>) }
    IN  IF hits = {} THEN "E"
        ELSE RATING_THRESHOLDS[CHOOSE i \in hits : \A j \in hits : i <= j].rating

\* result.to_dict()
ScoringResult(input) ==
    LET breakdown == scoring_calculate_emissions(input)
    IN  [score               |-> Round(TotalScore(input), 2),
         co2_kg              |-> breakdown.total_emissions,
         rating              |-> get_rating(TotalScore(input)),
         breakdown           |-> breakdown,
         resource_multiplier |-> RESOURCE_MULTIPLIERS(input.resource_type)]

\* DatabaseManager.store_score: True, False, or an exception
store_score(mode) ==
    IF mode = "connected" THEN "True"
    ELSE IF mode = "raises" THEN "raised"
    ELSE "False"

\* a calculate_score without the try around store_score
ScoreAfterStorePropagating(store_outcome, result) ==
    IF store_outcome = "raised"
    THEN [outcome |-> "raised", calc |-> NoCalc]
    ELSE [outcome |-> "returned", calc |-> result]

\* try: store_score(...) except Exception: log; return result.to_dict()
ScoreAfterStore(store_outcome, result) ==
    [outcome |-> "returned", calc |-> result]

calculate_score(energy_consumption, transport_distance, waste_generated, resource_type) ==
    LET scoring_input ==
            [energy_consumption |-> energy_consumption,
             transport_distance |-> transport_distance,
             waste_generated    |-> waste_generated,
             resource_type      |-> resource_type]
    IN  /\ op = "idle"
        /\ stored < MaxStored
        /\ op' = "calculate_score"
        /\ args' = scoring_input
        /\ IF ~validate(scoring_input)
           THEN /\ outcome' = "raised"
                /\ calc' = NoCalc
                /\ storeCalls' = 0
                /\ stored' = stored
           ELSE \E after \in {ScoreAfterStore(store_score(dbMode),
                                              ScoringResult(scoring_input))} :
                   /\ outcome' = after.outcome
                   /\ calc' = after.calc
                   /\ storeCalls' = 1
                   /\ stored' = IF store_score(dbMode) = "True"
                                THEN stored + 1 ELSE stored
        /\ UNCHANGED <<results, embedCalls, indexQueries, askedFor,
                       categories, stats, status>>
        /\ UNCHANGED <<index, backend, memo, singletonVars, ingestVars,
                       dbMode>>

InitScoringApi ==
    /\ index = <<>>
    /\ InitCall
    /\ backend = "up"
    /\ memo = NoMemo
    /\ store = "ok"
    /\ InitSingleton
    /\ InitIngest
    /\ dbMode \in DbModes
    /\ stored = 0

NextScoringApi ==
    \/ \E energy_consumption \in Energies, transport_distance \in Transports,
          waste_generated \in Wastes, resource_type \in ResourceTypes :
            calculate_score(energy_consumption, transport_distance,
                            waste_generated, resource_type)
    \/ Return

SpecScoringApi == InitScoringApi /\ [][NextScoringApi]_vars

(***************************************************************************)
(* eleven_agent_acceuil: POST /api/v1/questionnaire.                       *)
(***************************************************************************)
\* {q["id"] for q in QUESTIONS}
QuestionIds ==
    {"activity", "workplace", "employees", "products", "clients_geo",
     "vehicles", "machines", "cloud", "hosting", "recond"}

\* two companies' answers to all the questions
Profiles ==
    { [activity |-> "services", workplace |-> "bureaux", employees |-> "5",
       products |-> "services", clients_geo |-> "nationaux",
       vehicles |-> "non", machines |-> "non", cloud |-> "cloud",
       hosting |-> "prestataire", recond |-> "non"],
      [activity |-> "fabrication", workplace |-> "atelier", employees |-> "40",
       products |-> "produits", clients_geo |-> "locaux",
       vehicles |-> "oui", machines |-> "oui", cloud |-> "local",
       hosting |-> "prestataire", recond |-> "oui"] }

\* the answers dicts a client can post: some of the questions answered
AnswerDicts ==
    { [k \in provided |-> profile[k]] :
        provided \in SUBSET QuestionIds, profile \in Profiles }

\* ans.get(key, '').lower()
AnswerOf(answers, key) == IF key \in DOMAIN answers THEN answers[key] ELSE ""

\* word in text, for the answer texts above
Mentions(text, word) ==
    <<text, word>> \in { <<"cloud", "cloud">>, <<"local", "local">>,
                         <<"oui", "oui">>, <<"produits", "produit">> }

\* simple_score with the default weights, 0.25 each
simple_score(answers) ==
    LET s1 == IF Mentions(AnswerOf(answers, "cloud"), "cloud") THEN 40 ELSE 50
        s2 == IF Mentions(AnswerOf(answers, "cloud"), "local")
              THEN s1 + 10 ELSE s1
        s3 == IF \/ Mentions(AnswerOf(answers, "recond"), "oui")
                 \/ Mentions(AnswerOf(answers, "recond"), "recondition")
              THEN s2 - 15 ELSE s2
        numerique == IF s3 < 0 THEN 0 ELSE IF s3 > 100 THEN 100 ELSE s3
        transport == IF AnswerOf(answers, "vehicles") \in {"oui", "yes", "y"}
                     THEN 60 ELSE 20
        energie == IF AnswerOf(answers, "machines") \in {"oui", "yes", "y"}
                   THEN 70 ELSE 30
        achats == IF Mentions(AnswerOf(answers, "products"), "produit")
                  THEN 60 ELSE 20
    IN  [numerique |-> numerique, transport |-> transport,
         energie |-> energie, achats |-> achats,
         global |-> Round(<<numerique + transport + energie + achats, 4>>,
                          0)[1]]

\* the except clauses of submit_questionnaire: ValueError gives 400, any
\* other Exception, the endpoint's own HTTPException included, gives 500
QuestionnaireStatus(exception) ==
    IF exception = "ValueError" THEN 400 ELSE 500

\* @app.post("/api/v1/questionnaire")
submit_questionnaire(answers) ==
    /\ op = "idle"
    /\ op' = "questionnaire"
    /\ args' = answers
    /\ IF QuestionIds \ DOMAIN answers # {}
       THEN /\ outcome' = "raised"
            /\ calc' = NoCalc
            /\ status' = QuestionnaireStatus("HTTPException")
       ELSE /\ outcome' = "returned"
            /\ calc' = simple_score(answers)
            /\ status' = 200
    /\ UNCHANGED <<results, embedCalls, indexQueries, askedFor, storeCalls,
                   categories, stats>>
    /\ CallFrame

InitQuestionnaire ==
    /\ index = <<>>
    /\ InitCall
    /\ backend = "up"
    /\ memo = NoMemo
    /\ store = "ok"
    /\ InitSingleton
    /\ InitIngest
    /\ InitScoring

NextQuestionnaire ==
    \/ \E answers \in AnswerDicts : submit_questionnaire(answers)
    \/ Return

SpecQuestionnaire == InitQuestionnaire /\ [][NextQuestionnaire]_vars

(***************************************************************************)
(* get_rag_service: the lazily constructed singleton.  The endpoints are   *)
(* plain def functions with Depends(get_rag_service), which FastAPI runs   *)
(* in worker threads, so several threads can be inside get_rag_service.    *)
(* The lifespan hook that would preload the service is inside a string     *)
(* literal of api.py and never runs.                                       *)
(***************************************************************************)
\* what __init__ can find on disk
Stores == {"ok", "no_dir", "no_collection"}

\* a constructor that creates the collection when it is missing
InitSucceedsWithoutCollection(st) == st # "no_dir"

\* __init__ returns: CHROMA_DIR exists and get_collection finds the collection
InitSucceeds(st) == st = "ok"

\* get_rag_service touches nothing but the global
ServiceFrame == UNCHANGED <<index, callVars, backend, memo, ingestVars, scoringVars>>

\* if _rag_service is None:
Check(t) ==
    /\ pc[t] = "new"
    /\ pc' = [pc EXCEPT ![t] = IF rag_service = 0 THEN "constructing"
                                                   ELSE "returning"]
    /\ UNCHANGED <<store, rag_service, constructed, got>>
    /\ ServiceFrame

\* _rag_service = CarbonRAGService()
Construct(t) ==
    /\ pc[t] = "constructing"
    /\ IF InitSucceeds(store)
       THEN /\ constructed' = constructed + 1
            /\ rag_service' = constructed + 1
            /\ pc' = [pc EXCEPT ![t] = "returning"]
       ELSE /\ pc' = [pc EXCEPT ![t] = "failed"]
            /\ UNCHANGED <<constructed, rag_service>>
    /\ UNCHANGED <<store, got>>
    /\ ServiceFrame

\* return _rag_service
ReturnService(t) ==
    /\ pc[t] = "returning"
    /\ got' = [got EXCEPT ![t] = rag_service]
    /\ pc' = [pc EXCEPT ![t] = "has_service"]
    /\ UNCHANGED <<store, rag_service, constructed>>
    /\ ServiceFrame

\* the endpoint runs with the instance it was given
Serve(t) ==
    /\ pc[t] = "has_service"
    /\ pc' = [pc EXCEPT ![t] = "served"]
    /\ UNCHANGED <<store, rag_service, constructed, got>>
    /\ ServiceFrame

\* the response (or the error of the dependency) is sent; the thread takes
\* the next request
Finish(t) ==
    /\ pc[t] \in {"served", "failed"}
    /\ pc' = [pc EXCEPT ![t] = "new"]
    /\ got' = [got EXCEPT ![t] = 0]
    /\ UNCHANGED <<store, rag_service, constructed>>
    /\ ServiceFrame

InitService ==
    /\ index \in {<<>>}
    /\ InitCall
    /\ backend = "up"
    /\ memo = NoMemo
    /\ store \in Stores
    /\ InitSingleton
    /\ InitIngest
    /\ InitScoring

NextService ==
    \/ \E t \in Threads : Check(t)
    \/ \E t \in Threads : Construct(t)
    \/ \E t \in Threads : ReturnService(t)
    \/ \E t \in Threads : Serve(t)
    \/ \E t \in Threads : Finish(t)

SpecService == InitService /\ [][NextService]_vars

(***************************************************************************)
(* Properties.                                                             *)
(***************************************************************************)
Abs(n) == IF n < 0 THEN 0 - n ELSE n

\* min_similarity in [0,1]
InUnitInterval(m) == RatLeq(<<0, 1>>, m) /\ RatLeq(m, <<1, 1>>)

\* r is a multiple of 10^-ndigits nearest to x: |r - x| <= 10^-ndigits / 2
IsRounding(r, x, ndigits) ==
    /\ r[2] = Pow10(ndigits)
    /\ 2 * Pow10(ndigits) * Abs(r[1] * x[2] - x[1] * r[2]) <= r[2] * x[2]

QueryReturned == op = "query" /\ outcome = "returned"

CalculateReturned == op = "calculate" /\ outcome = "returned"

\* calculate returned a Calculation Result
CalculationReturned == CalculateReturned /\ "co2e_kg" \in DOMAIN calc

\* what the loop of the query in progress kept, before the final cut
KeptByCall ==
    FormattedResults(
        CollectionQuery(index, Embed(args.query), args.top_k * 2,
                        WhereFilter(args.category_filter)),
        args.min_similarity)

\* C1: query called with top_k >= 1 and min_similarity in [0,1] returns a
\* list of at most top_k results, whatever the index, query text and filter.
C1_AtMostTopK ==
    (QueryReturned /\ args.top_k >= 1 /\ InUnitInterval(args.min_similarity))
        => Len(results) <= args.top_k

\* more candidates passed the threshold than top_k, and the list was cut
C1_Witness ==
    /\ QueryReturned
    /\ args.top_k = 1
    /\ InUnitInterval(args.min_similarity)
    /\ Len(KeptByCall) = 2
    /\ Len(results) = 1

\* C2: for min_similarity in [0,1], every returned similarity_score (the
\* rounded value in the result) is >= the min_similarity passed.
C2_ScoreAtLeastMin ==
    (QueryReturned /\ InUnitInterval(args.min_similarity))
        => \A i \in 1..Len(results) :
              RatLeq(args.min_similarity, results[i].similarity_score)

\* C3: the returned list is in descending similarity_score and keeps the
\* order of the index's answer, so equal scores stay in index order.
C3_DescendingStable ==
    QueryReturned
        => \A i \in 1..(Len(results) - 1) :
              /\ RatLeq(results[i + 1].similarity_score,
                        results[i].similarity_score)
              /\ results[i].rank < results[i + 1].rank

\* two different records with equal score were returned
C3_Witness ==
    /\ QueryReturned
    /\ Len(results) = 2
    /\ results[1].similarity_score = results[2].similarity_score
    /\ results[1].description # results[2].description

\* C4: when a category_filter is supplied, every returned record's
\* category equals that filter.
C4_CategoryEqualsFilter ==
    (QueryReturned /\ args.category_filter # NoFilter
                   /\ InUnitInterval(args.min_similarity))
        => \A i \in 1..Len(results) :
              results[i].category = args.category_filter

\* C5: raising min_similarity never increases the number of results: the
\* list of the call is no longer than the list of the same call with any
\* lower threshold, and no shorter than with any higher one.
C5_MonotoneInMinSimilarity ==
    QueryReturned
        => \A m \in MinSimilarities :
              LET other == QueryCall(index, args.query, args.top_k,
                                     args.category_filter, m).results
              IN  /\ RatLeq(args.min_similarity, m)
                        => Len(other) <= Len(results)
                  /\ RatLeq(m, args.min_similarity)
                        => Len(results) <= Len(other)

\* the call at 0.5 returned strictly fewer results than it does at 0.3
C5_Witness ==
    /\ QueryReturned
    /\ args.min_similarity = QueryMinSimilarity
    /\ Len(results) <
         Len(QueryCall(index, args.query, args.top_k, args.category_filter,
                       CalculateMinSimilarity).results)

\* C6: when the search of calculate yields no factor, calculate returns
\* (does not raise) a dict with the key "error", without the keys of a
\* Calculation Result, carrying the query text unchanged; a Calculation
\* Result never has the key "error".
C6_NotFoundIsValue ==
    /\ (op = "calculate" /\ args.top_k >= 1) => outcome = "returned"
    /\ (CalculateReturned /\ Len(results) = 0)
          => /\ "error" \in DOMAIN calc
             /\ "co2e_kg" \notin DOMAIN calc
             /\ "factor_used" \notin DOMAIN calc
             /\ calc.query = args.query
    /\ (CalculateReturned /\ Len(results) > 0)
          => "error" \notin DOMAIN calc

\* a non-empty index in which every record is below the 0.3 threshold
C6_Witness ==
    /\ CalculateReturned
    /\ Len(index) > 0
    /\ Len(results) = 0
    /\ "error" \in DOMAIN calc

\* C7: calculate called with value <= 0 (and a valid top_k) is rejected,
\* before any embedding call or index query.
C7_NonPositiveValueRejected ==
    (op = "calculate" /\ RatLeq(args.value, <<0, 1>>) /\ args.top_k >= 1)
        => /\ outcome # "returned"
           /\ embedCalls = 0
           /\ indexQueries = 0

\* C8: query called with top_k <= 0 or min_similarity outside [0,1] is
\* rejected (it does not return a list) before any index access.
C8_InvalidSearchRejected ==
    (op = "query" /\ (args.top_k <= 0 \/ ~InUnitInterval(args.min_similarity)))
        => /\ outcome # "returned"
           /\ indexQueries = 0

\* C9: in every Calculation Result co2e_kg is factor_used.factor * value
\* rounded to 2 decimals; value 100 with factor 0.17 gives 17.0 and
\* car_km_average 100.0.
C9_EstimateIsRoundedProduct ==
    CalculationReturned
        => /\ IsRounding(calc.co2e_kg,
                         RatMul(calc.factor_used.factor, args.value), 2)
           /\ (args.value = <<100, 1>> /\ calc.factor_used.factor = <<17, 100>>)
                 => /\ calc.co2e_kg = <<1700, 100>>
                    /\ calc.equivalents.car_km_average = <<1000, 10>>

\* value 100 with factor 0.17
C9_Witness ==
    /\ CalculationReturned
    /\ args.value = <<100, 1>>
    /\ calc.factor_used.factor = <<17, 100>>
    /\ calc.co2e_kg = <<1700, 100>>

\* C10 as stated: the estimate and both equivalents are shown at 2
\* decimals, the equivalents being the full-precision product divided by
\* 0.17 and by 21.
C10_AllAtTwoDecimals ==
    CalculationReturned
        => LET product == RatMul(calc.factor_used.factor, args.value)
           IN  /\ IsRounding(calc.co2e_kg, product, 2)
               /\ \E shown \in {Round(calc.equivalents.car_km_average, 2)} :
                     IsRounding(shown, RatDiv(product, <<17, 100>>), 2)
               /\ IsRounding(calc.equivalents.trees_year_offset,
                             RatDiv(product, <<21, 1>>), 2)

\* C10 amended: co2e_kg and trees_year_offset are rounded to 2 decimals and
\* car_km_average to 1 decimal, each from the unrounded product
\* factor_used.factor * value (divided by 0.17, respectively 21).
C10_EquivalentsFromFullPrecision ==
    CalculationReturned
        => LET product == RatMul(calc.factor_used.factor, args.value)
           IN  /\ IsRounding(calc.co2e_kg, product, 2)
               /\ IsRounding(calc.equivalents.car_km_average,
                             RatDiv(product, <<17, 100>>), 1)
               /\ IsRounding(calc.equivalents.trees_year_offset,
                             RatDiv(product, <<21, 1>>), 2)

\* factor 0.23 and value 0.41: the product 0.0943 shows car_km_average 0.6,
\* where the rounded estimate 0.09 would show 0.5
C10_Witness ==
    /\ CalculationReturned
    /\ args.value = <<41, 100>>
    /\ calc.factor_used.factor = <<23, 100>>
    /\ calc.co2e_kg = <<9, 100>>
    /\ calc.equivalents.car_km_average = <<6, 10>>

\* C11: in a Calculation Result factor_used is the first element of the
\* search result list and alternative_factors is exactly the rest, in the
\* same order: empty when one result survived, at most top_k - 1 long, and
\* with no score above that of factor_used.
C11_BestAndAlternatives ==
    CalculationReturned
        => /\ calc.factor_used = results[1]
           /\ Len(calc.alternative_factors) = Len(results) - 1
           /\ \A i \in 1..Len(calc.alternative_factors) :
                 /\ calc.alternative_factors[i] = results[i + 1]
                 /\ RatLeq(calc.alternative_factors[i].similarity_score,
                           calc.factor_used.similarity_score)
           /\ Len(calc.alternative_factors) <= args.top_k - 1
           /\ (Len(results) = 1 => calc.alternative_factors = <<>>)

\* two factors passed: one is used, the other, less similar, is the alternative
C11_Witness ==
    /\ CalculationReturned
    /\ Len(results) = 2
    /\ Len(calc.alternative_factors) = 1
    /\ RatLess(calc.alternative_factors[1].similarity_score,
               calc.factor_used.similarity_score)

\* the categories of all records of the collection
IndexedCategories == { index[i].category : i \in 1..Len(index) }

\* C13: get_available_categories returns exactly the distinct categories
\* present in the index, whatever its size.
C13_CategoriesExact ==
    (op = "categories" /\ outcome = "returned")
        => { categories[i] : i \in 1..Len(categories) } = IndexedCategories

\* C14: over any interleaving of concurrent get_rag_service calls the
\* service is constructed at most once and every call gets that instance.
C14_ConstructedOnce ==
    /\ constructed <= 1
    /\ \A t \in Threads, u \in Threads :
          (got[t] # 0 /\ got[u] # 0) => got[t] = got[u]

\* C16: with the index directory or the collection missing, the constructor
\* fails, _rag_service stays None, no thread is handed an instance and no
\* endpoint runs.
C16_MissingStoreServesNothing ==
    store # "ok"
        => /\ rag_service = 0
           /\ constructed = 0
           /\ \A t \in Threads :
                 /\ got[t] = 0
                 /\ pc[t] \in {"new", "constructing", "failed"}

\* the collection is missing and a request has failed in the constructor
C16_Witness ==
    /\ store = "no_collection"
    /\ \E t \in Threads : pc[t] = "failed"
    /\ rag_service = 0

C17_OneAttemptFailurePropagates ==
    op \in {"query", "calculate"}
        => /\ embedCalls <= 1
           /\ indexQueries <= 1
           /\ backend # "up"
                 => /\ outcome = "raised"
                    /\ results = <<>>
                    /\ calc = NoCalc
           /\ backend = "embed_down" => indexQueries = 0

\* calculate whose index query failed after one embedding call
C17_Witness ==
    /\ op = "calculate"
    /\ backend = "index_down"
    /\ args.top_k >= 1
    /\ outcome = "raised"
    /\ embedCalls = 1
    /\ indexQueries = 1

\* the rows of the sheet that ingestion does not skip, in order
AcceptedRows == SelectSeq(rows, LAMBDA row : ~IsNa(row.factor)
                                             /\ row.factor[1] # 0)

C19_FactorNonNegative ==
    /\ \A i \in 1..Len(index) : index[i].factor[1] >= 0
    /\ \A i \in 1..Len(results) : results[i].factor[1] >= 0

C21_NotFoundIs404FailureIs500 ==
    (op = "http_calculate" /\ outcome # "none")
        => /\ ("error" \in DOMAIN calc) <=> (status = 404)
           /\ (outcome = "raised") <=> (status = 500)
           /\ ("co2e_kg" \in DOMAIN calc) <=> (status = 200)

\* a valid /calculate request that matched nothing
C21_Witness ==
    /\ op = "http_calculate"
    /\ outcome = "returned"
    /\ calc = NotFound(args.query)
    /\ Len(index) > 0
    /\ status = 404

\* what query(query, top_k) with its default threshold answers for the
\* arguments of the calculate in progress
DefaultSearchOfCall ==
    QueryCall(index, args.query, args.top_k, NoFilter, QueryMinSimilarity).results

\* C22: whenever query with its default threshold 0.5 finds something for
\* the same index, text and top_k, calculate does not return NotFound and
\* its factor_used is the first element of that list.
C22_CalculateAtLeastAsPermissive ==
    (CalculateReturned /\ Len(DefaultSearchOfCall) > 0)
        => /\ "co2e_kg" \in DOMAIN calc
           /\ calc.factor_used = DefaultSearchOfCall[1]

\* calculate kept a factor between 0.3 and 0.5 that the default search drops
C22_Witness ==
    /\ CalculationReturned
    /\ Len(DefaultSearchOfCall) > 0
    /\ Len(results) > Len(DefaultSearchOfCall)
    /\ calc.factor_used = DefaultSearchOfCall[1]

\* the index's answer to the 2 x top_k query of the search in progress,
\* under the filter as passed
CandidatesOfCall ==
    CollectionQuery(index, Embed(args.query), 2 * args.top_k,
                    args.category_filter)

\* the ranks of the candidates at or above the threshold
PassingOfCall ==
    { r \in 1..Len(CandidatesOfCall) :
        ~RatLess(Similarity(CandidatesOfCall[r].distance), args.min_similarity) }

C24_OverFetchChangesNothing ==
    QueryReturned
        => results =
             Truncate(
               FormattedResults(
                 CollectionQuery(index, Embed(args.query), args.top_k,
                                 WhereFilter(args.category_filter)),
                 args.min_similarity),
               args.top_k)

\* the index held more eligible records than top_k and the search filled up
C24_Witness ==
    /\ QueryReturned
    /\ args.category_filter = NoFilter
    /\ Len(CandidatesOfCall) > args.top_k
    /\ Len(results) = args.top_k
    /\ askedFor > args.top_k

\* C25: every returned similarity_score is in [0,1], is 1 at distance 0,
\* and a candidate no farther than another has a score no lower.
C25_ScoreInUnitIntervalAndMonotone ==
    (op \in {"query", "calculate"} /\ outcome = "returned")
        => LET found == CollectionQuery(index, Embed(args.query),
                                        2 * args.top_k,
                                        IF op = "query"
                                        THEN WhereFilter(args.category_filter)
                                        ELSE NoFilter)
               dist(i) == found[results[i].rank].distance
               score(i) == results[i].similarity_score
           IN  \A i \in 1..Len(results) :
                 /\ RatLeq(<<0, 1>>, score(i))
                 /\ RatLeq(score(i), <<1, 1>>)
                 /\ dist(i)[1] = 0 => RatEq(score(i), <<1, 1>>)
                 /\ \A j \in 1..Len(results) :
                       RatLeq(dist(i), dist(j))
                           => RatLeq(score(j), score(i))

\* a search that returned an exact match and a farther record
C25_Witness ==
    /\ QueryReturned
    /\ Len(results) = 2
    /\ RatEq(results[1].similarity_score, <<1, 1>>)
    /\ RatLess(results[2].similarity_score, <<1, 1>>)
    /\ RatLess(<<0, 1>>, results[2].similarity_score)

ScoreReturned == op = "calculate_score" /\ outcome = "returned"

\* the band of the rating table that holds a score, 100 counted in E
BandOf(score) ==
    IF RatLess(score, <<20, 1>>) THEN "A+"
    ELSE IF RatLess(score, <<40, 1>>) THEN "A"
    ELSE IF RatLess(score, <<60, 1>>) THEN "B"
    ELSE IF RatLess(score, <<80, 1>>) THEN "C"
    ELSE IF RatLess(score, <<90, 1>>) THEN "D"
    ELSE "E"

\* C27: the returned score is in [0,100] and the returned rating is the
\* band that holds the returned score.
C27_RatingIsBandOfReturnedScore ==
    ScoreReturned
        => /\ RatLeq(<<0, 1>>, calc.score)
           /\ RatLeq(calc.score, <<100, 1>>)
           /\ calc.rating = BandOf(calc.score)

\* C28: a calculate_score with a negative quantity or an unknown resource
\* type raises, computes nothing, does not call store_score and leaves the
\* table as it was.
C28_RejectedInputPersistsNothing ==
    [][(/\ op' = "calculate_score"
        /\ \/ RatLess(args'.energy_consumption, <<0, 1>>)
           \/ RatLess(args'.transport_distance, <<0, 1>>)
           \/ RatLess(args'.waste_generated, <<0, 1>>)
           \/ args'.resource_type \notin {"Renewable", "Non-renewable", "Mixed"})
          => /\ outcome' = "raised"
             /\ calc' = NoCalc
             /\ storeCalls' = 0
             /\ stored' = stored]_vars

\* an unknown resource type with sound quantities, rejected while connected
C28_Witness ==
    /\ op = "calculate_score"
    /\ args.resource_type = "Solar"
    /\ args.energy_consumption = <<500, 1>>
    /\ args.transport_distance = <<100, 1>>
    /\ args.waste_generated = <<40, 1>>
    /\ dbMode = "connected"
    /\ outcome = "raised"
    /\ storeCalls = 0

\* C29: for a valid input calculate_score returns, and what it returns is
\* determined by the input alone, whatever store_score does.
C29_PersistenceNeverBlocks ==
    (/\ op = "calculate_score"
     /\ ~RatLess(args.energy_consumption, <<0, 1>>)
     /\ ~RatLess(args.transport_distance, <<0, 1>>)
     /\ ~RatLess(args.waste_generated, <<0, 1>>)
     /\ args.resource_type \in {"Renewable", "Non-renewable", "Mixed"})
        => /\ outcome = "returned"
           /\ storeCalls = 1
           /\ calc = ScoringResult(args)

\* a score returned although store_score raised; nothing was stored
C29_Witness ==
    /\ ScoreReturned
    /\ dbMode = "raises"
    /\ storeCalls = 1
    /\ stored = 0
    /\ calc.rating = "B"

\* C30: a questionnaire that omits a question is answered 400 and no score
\* is computed.
C30_MissingAnswerGets400 ==
    (op = "questionnaire" /\ QuestionIds \ DOMAIN args # {})
        => status = 400 /\ calc = NoCalc

==========================================================================
